---- MODULE Spec2Model ----
(***************************************************************************)
(* Model of the accessibility engine, class AssessPipeline of              *)
(* src/src/assess.py: edge weights from road classes, snapping of points   *)
(* onto graph nodes, multi-source Dijkstra with a cutoff, attachment of    *)
(* travel times to population points and threshold summaries.             *)
(*                                                                         *)
(* Numbers.  The program computes in IEEE doubles.  The model computes in  *)
(* exact rationals [n, d] in lowest terms, extended by the three          *)
(* non-finite doubles: n/0 with n > 0 is +inf, n < 0 is -inf, 0/0 is NaN.  *)
(* Rounding of the last bit of a double is not modelled.                   *)
(***************************************************************************)
EXTENDS Integers, Sequences, FiniteSets, TLC

VARIABLES G, edges, nodes, pop_points, facilities, kdtree, lengths, ret, prev

\* ret is the record of the last call and prev that of the call before it;
\* the other variables are the fields of the pipeline object
vars == <<G, edges, nodes, pop_points, facilities, kdtree, lengths, ret, prev>>

-----------------------------------------------------------------------------
(* Bounds of the model.                                                    *)

\* graph nodes are 1..NumNodes at most
NumNodes == 3
\* parallel-edge keys of the graph are 0..MaxKey
MaxKey == 1
\* rows of the edge table in the weight-writing runs
MaxRows == 2
\* edge lengths are 0, 100, ..., 100 * MaxLenUnits metres
MaxLenUnits == 2
\* population points in the summary runs
MaxPop == 3

-----------------------------------------------------------------------------
(* Doubles as extended rationals.                                          *)

Abs(i) == IF i < 0 THEN -i ELSE i

Sign(i) == IF i < 0 THEN -1 ELSE IF i = 0 THEN 0 ELSE 1

RECURSIVE GCD(_, _)
GCD(a, b) == IF b = 0 THEN a ELSE GCD(b, a % b)

\* the double n/d, d >= 0 after the sign is moved to n
Rat(n, d) ==
    LET s == IF d < 0 THEN -1 ELSE 1
        nn == s * n
        dd == s * d
    IN  IF dd = 0 THEN [n |-> Sign(nn), d |-> 0]
        ELSE LET g == GCD(Abs(nn), dd) IN [n |-> nn \div g, d |-> dd \div g]

Num(i) == Rat(i, 1)

NaN == [n |-> 0, d |-> 0]

\* np.isnan, np.isfinite
IsNaN(x) == x.d = 0 /\ x.n = 0

IsFinite(x) == x.d # 0

\* x + y for finite operands (inf and NaN propagate as in IEEE)
RatAdd(x, y) ==
    IF IsFinite(x) /\ IsFinite(y) THEN Rat(x.n * y.d + y.n * x.d, x.d * y.d)
    ELSE IF IsNaN(x) \/ IsNaN(y) THEN NaN
    ELSE IF IsFinite(x) THEN y
    ELSE IF IsFinite(y) THEN x
    ELSE IF x.n = y.n THEN x ELSE NaN

RatMul(x, y) == Rat(x.n * y.n, x.d * y.d)

\* x / y as numpy divides: finite/0 is +-inf, 0/0 is NaN
RatDiv(x, y) == Rat(x.n * y.d, x.d * y.n)

\* x <= y; every comparison with NaN is False
RatLE(x, y) ==
    IF IsNaN(x) \/ IsNaN(y) THEN FALSE
    ELSE IF IsFinite(x) /\ IsFinite(y) THEN x.n * y.d <= y.n * x.d
    ELSE IF IsFinite(x) THEN y.n > 0
    ELSE IF IsFinite(y) THEN x.n < 0
    ELSE x.n <= y.n

RatLT(x, y) == RatLE(x, y) /\ x # y

RatGT(x, y) == RatLT(y, x)

-----------------------------------------------------------------------------
(* Sequence helpers.                                                       *)

Range(s) == {s[i] : i \in 1..Len(s)}

\* all sequences over S of length 0..n
SeqsUpTo(S, n) == UNION {[1..k -> S] : k \in 0..n}

-----------------------------------------------------------------------------
(* Values of the data model.                                               *)

\* a column or attribute that is not there
Absent == [absent |-> TRUE]

\* the 'highway' tag of an edge row: a string, a list of strings, or missing
Str(s) == [str |-> s]

List(l) == [list |-> l]

Missing == [missing |-> TRUE]

\* the _node_kdtree / _node_index_list pair before it is built
NoTree == [built |-> FALSE]

\* the seconds mapping {} and the return record of a call
EmptyMap == [x \in {} |-> NaN]

Returned(op, arg, value) == [op |-> op, arg |-> arg, raised |-> "none", value |-> value]

Raised(op, arg, exc) == [op |-> op, arg |-> arg, raised |-> exc, value |-> Absent]

NoCall == [op |-> "none", arg |-> Absent, raised |-> "none", value |-> Absent]

-----------------------------------------------------------------------------
(* Road network weights: assign_speeds_and_travel_time.                    *)

default_speeds ==
    [motorway |-> 80, motorway_link |-> 60, trunk |-> 60, trunk_link |-> 50,
     primary |-> 50, primary_link |-> 40, secondary |-> 40,
     secondary_link |-> 35, tertiary |-> 35, tertiary_link |-> 30,
     residential |-> 25, living_street |-> 20, unclassified |-> 20,
     service |-> 15]

\* .fillna(30)
FallbackSpeed == 30

\* a slip of _highway_str: the last element of the list instead of the first
HighwayStrLast(x) ==
    IF "list" \in DOMAIN x /\ Len(x.list) > 0 THEN Str(x.list[Len(x.list)]) ELSE x

\* if list, take first element
_highway_str(x) ==
    IF "list" \in DOMAIN x /\ Len(x.list) > 0 THEN Str(x.list[1]) ELSE x

\* .map(default_speeds).fillna(30)
SpeedKph(hs) ==
    IF "str" \in DOMAIN hs /\ hs.str \in DOMAIN default_speeds
    THEN default_speeds[hs.str]
    ELSE FallbackSpeed

\* (length / 1000.0) / speed_kph * 3600.0
TravelTimeSec(length, speed_kph) ==
    RatMul(RatDiv(RatDiv(Num(length), Num(1000)), Num(speed_kph)), Num(3600))

\* the three columns the call adds to one row
WeightRow(row) ==
    LET hs == _highway_str(row.highway)
        sp == SpeedKph(hs)
    IN  [row EXCEPT !.highway_str = hs,
                    !.speed_kph = Num(sp),
                    !.travel_time_sec = TravelTimeSec(row.length, sp)]

WeightedRows(rows) == [i \in 1..Len(rows) |-> WeightRow(rows[i])]

\* the key a row is filed under: (u, v, key), or (u, v, 0) when the index
\* holds only (u, v)
RowKey(row, keyed) == IF keyed THEN <<row.u, row.v, row.key>> ELSE <<row.u, row.v, 0>>

\* edge_time_dict[key] = tt on a dict that keeps insertion order
DictPut(d, key, tt) ==
    IF \E i \in 1..Len(d) : d[i].key = key
    THEN [i \in 1..Len(d) |-> IF d[i].key = key THEN [key |-> key, tt |-> tt] ELSE d[i]]
    ELSE Append(d, [key |-> key, tt |-> tt])

RECURSIVE BuildEdgeTimeDict(_, _, _, _)
BuildEdgeTimeDict(rows, keyed, i, d) ==
    IF i > Len(rows) THEN d
    ELSE BuildEdgeTimeDict(rows, keyed, i + 1,
             DictPut(d, RowKey(rows[i], keyed), rows[i].travel_time_sec))

edge_time_dict(rows, keyed) == BuildEdgeTimeDict(rows, keyed, 1, <<>>)

\* the parallel-edge keys of G[u][v]; iteration starts at the first one
ParallelKeys(ge, u, v) == {e[3] : e \in {x \in DOMAIN ge : x[1] = u /\ x[2] = v}}

FirstKey(ge, u, v) ==
    CHOOSE k \in ParallelKeys(ge, u, v) : \A j \in ParallelKeys(ge, u, v) : k <= j

\* a slip of WriteOne: the fallback loop without its break
WriteOneEvery(ge, key, tt) ==
    IF key \in DOMAIN ge
    THEN [ge EXCEPT ![key] = tt]
    ELSE [e \in DOMAIN ge |-> IF e[1] = key[1] /\ e[2] = key[2] THEN tt ELSE ge[e]]

\* one pass of the loop body that writes tt into the graph
WriteOne(ge, key, tt) ==
    IF key \in DOMAIN ge
    THEN [ge EXCEPT ![key] = tt]
    ELSE IF ParallelKeys(ge, key[1], key[2]) # {}
         THEN [ge EXCEPT ![<<key[1], key[2], FirstKey(ge, key[1], key[2])>>] = tt]
         ELSE ge

RECURSIVE WriteGraph(_, _, _)
WriteGraph(ge, d, i) ==
    IF i > Len(d) THEN ge
    ELSE WriteGraph(WriteOne(ge, d[i].key, d[i].tt), d, i + 1)

AssignSpeedsAndTravelTime ==
    LET rows == WeightedRows(edges.rows)
    IN  /\ edges' = [edges EXCEPT !.rows = rows]
        /\ G' = [G EXCEPT !.edges = WriteGraph(G.edges, edge_time_dict(rows, edges.keyed), 1)]
        /\ ret' = Returned("assign_speeds_and_travel_time", Absent, rows)
        /\ UNCHANGED <<nodes, pop_points, facilities, kdtree, lengths>>
        /\ prev' = ret

-----------------------------------------------------------------------------
(* Snapping: _build_node_kdtree and _snap_to_nearest_nodes.                *)

\* projected coordinate of graph node i (a row of nodes_gdf)
NodeCoord(i) == <<10 * i, 0>>

Dist2(p, q) == (p[1] - q[1]) * (p[1] - q[1]) + (p[2] - q[2]) * (p[2] - q[2])

\* cKDTree(coords) and the index list, from the node table as it is now
BuiltTree(nd) ==
    [built |-> TRUE,
     coords |-> [i \in 1..Len(nd) |-> NodeCoord(nd[i])],
     ids |-> nd]

\* a slip of TreeAfterSnap: the index is built anew on every snap call
TreeRebuiltEachSnap(tree, nd) == BuiltTree(nd)

\* the cache after lines 50-51: built on first use, reused afterwards
TreeAfterSnap(tree, nd) == IF tree.built THEN tree ELSE BuiltTree(nd)

\* cKDTree.query(p, k=1): position of the nearest coordinate; the inputs of
\* the model have no equidistant candidates
Query(tree, p) ==
    CHOOSE i \in 1..Len(tree.coords) :
        \A j \in 1..Len(tree.coords) :
            \/ Dist2(tree.coords[i], p) < Dist2(tree.coords[j], p)
            \/ (Dist2(tree.coords[i], p) = Dist2(tree.coords[j], p) /\ i <= j)

\* a slip of SnapRaises: no points raise as well
SnapRaisesOnEmpty(tree, pts) == Len(pts) = 0 \/ Len(tree.coords) = 0

\* no points return [] before the query; a query on an empty tree answers
\* position n = 0 of an empty index list: _node_index_list[0] raises
\* IndexError
SnapRaises(tree, pts) == Len(pts) > 0 /\ Len(tree.coords) = 0

\* a slip of SnapNodes: the call that has just built the index answers
\* every point with the first entry of the index list
SnapNodesColdFirst(tree, pts) ==
    [i \in 1..Len(pts) |->
        IF kdtree.built THEN tree.ids[Query(tree, pts[i])] ELSE tree.ids[1]]

\* node ids of the points, [] for no points
SnapNodes(tree, pts) == [i \in 1..Len(pts) |-> tree.ids[Query(tree, pts[i])]]

\* _snap_to_nearest_nodes(points_gdf) called on its own
SnapToNearestNodes(pts) ==
    LET tree == TreeAfterSnap(kdtree, nodes)
        op == "_snap_to_nearest_nodes"
    IN  /\ kdtree' = tree
        /\ IF SnapRaises(tree, pts)
           THEN ret' = Raised(op, pts, "IndexError")
           ELSE ret' = Returned(op, pts, SnapNodes(tree, pts))
        /\ prev' = ret
        /\ UNCHANGED <<G, edges, nodes, pop_points, facilities, lengths>>

BuildNodeKdtree ==
    /\ kdtree' = BuiltTree(nodes)
    /\ ret' = Returned("_build_node_kdtree", Absent, Absent)
    /\ UNCHANGED <<G, edges, nodes, pop_points, facilities, lengths>>
    /\ prev' = ret

-----------------------------------------------------------------------------
(* Multi-source Dijkstra: compute_accessibility.                           *)

\* weight of one hop u -> v of a MultiDiGraph: the least travel_time_sec of
\* the parallel edges, an edge without the attribute counting 1
AttrOr1(a) == IF a = Absent THEN Num(1) ELSE a

HopEdges(ge, u, v) == {e \in DOMAIN ge : e[1] = u /\ e[2] = v}

\* a slip of Weight: the greatest of the parallel edges
WeightMax(ge, u, v) ==
    LET ws == {AttrOr1(ge[e]) : e \in HopEdges(ge, u, v)}
    IN  CHOOSE w \in ws : \A x \in ws : RatLE(x, w)

Weight(ge, u, v) ==
    LET ws == {AttrOr1(ge[e]) : e \in HopEdges(ge, u, v)}
    IN  CHOOSE w \in ws : \A x \in ws : RatLE(w, x)

\* G._adj[v]: the successors of v
Succ(ge, v) == {e[2] : e \in {x \in DOMAIN ge : x[1] = v}}

\* a slip of the cutoff test: >= instead of >
BeyondCutoffGE(d, cutoff) == RatLE(Num(cutoff), d)

\* if vu_dist > cutoff: continue
BeyondCutoff(d, cutoff) == RatGT(d, Num(cutoff))

\* the loop of the search: pop the nearest node not yet final, make it
\* final, relax its out-edges
RECURSIVE DijkstraLoop(_, _, _, _)
DijkstraLoop(ge, cutoff, dist, seen) ==
    LET fringe == DOMAIN seen \ DOMAIN dist
    IN  IF fringe = {} THEN dist
        ELSE LET v == CHOOSE x \in fringe : \A y \in fringe : RatLE(seen[x], seen[y])
                 d == seen[v]
                 dist1 == [x \in DOMAIN dist \cup {v} |-> IF x = v THEN d ELSE dist[x]]
                 vu(u) == RatAdd(d, Weight(ge, v, u))
                 better == {u \in Succ(ge, v) :
                              /\ ~BeyondCutoff(vu(u), cutoff)
                              /\ u \notin DOMAIN dist1
                              /\ (u \notin DOMAIN seen \/ RatLT(vu(u), seen[u]))}
                 seen1 == [x \in DOMAIN seen \cup better |->
                              IF x \in better THEN vu(x) ELSE seen[x]]
             IN  DijkstraLoop(ge, cutoff, dist1, seen1)

\* nx.multi_source_dijkstra_path_length(G, sources, cutoff, weight)
multi_source_dijkstra_path_length(ge, sources, cutoff) ==
    DijkstraLoop(ge, cutoff, EmptyMap, [s \in sources |-> Num(0)])

ComputeAccessibility(cutoff) ==
    LET tree == TreeAfterSnap(kdtree, nodes)
        op == "compute_accessibility"
    IN  /\ kdtree' = tree
        /\ IF SnapRaises(tree, facilities)
           THEN /\ ret' = Raised(op, cutoff, "IndexError")
                /\ UNCHANGED lengths
           ELSE LET facility_nodes == Range(SnapNodes(tree, facilities))
                IN  IF facility_nodes = {}
                    THEN /\ ret' = Returned(op, cutoff, EmptyMap)
                         /\ lengths' = EmptyMap
                    ELSE IF ~(facility_nodes \subseteq G.nodes)
                    THEN /\ ret' = Raised(op, cutoff, "NodeNotFound")
                         /\ UNCHANGED lengths
                    ELSE LET res == multi_source_dijkstra_path_length(
                                        G.edges, facility_nodes, cutoff)
                         IN  /\ ret' = Returned(op, cutoff, res)
                             /\ lengths' = res
        /\ UNCHANGED <<G, edges, nodes, pop_points, facilities>>
        /\ prev' = ret

-----------------------------------------------------------------------------
(* Travel times of the population: attach_travel_times.                    *)

PopRow(xy, pop) == [xy |-> xy, pop |-> pop, travel_time_min |-> Absent]

PointsOf(rows) == [i \in 1..Len(rows) |-> rows[i].xy]

\* a slip of MinutesOf: lengths.get(n, 0) instead of lengths.get(n, np.nan)
MinutesOfZeroDefault(ls, n) ==
    LET sec == IF n \in DOMAIN ls THEN ls[n] ELSE Num(0)
    IN  IF IsFinite(sec) THEN RatDiv(sec, Num(60)) ELSE NaN

\* sec = lengths.get(n, np.nan); sec / 60.0 if np.isfinite(sec) else np.nan
MinutesOf(ls, n) ==
    LET sec == IF n \in DOMAIN ls THEN ls[n] ELSE NaN
    IN  IF IsFinite(sec) THEN RatDiv(sec, Num(60)) ELSE NaN

AttachTravelTimes(ls) ==
    LET tree == TreeAfterSnap(kdtree, nodes)
        op == "attach_travel_times"
        pts == PointsOf(pop_points.rows)
    IN  /\ kdtree' = tree
        /\ IF SnapRaises(tree, pts)
           THEN /\ ret' = Raised(op, ls, "IndexError")
                /\ UNCHANGED pop_points
           ELSE LET pop_nodes == SnapNodes(tree, pts)
                    attached ==
                        [cols |-> pop_points.cols \cup {"travel_time_min"},
                         rows |-> [i \in 1..Len(pop_points.rows) |->
                                     [pop_points.rows[i] EXCEPT
                                        !.travel_time_min = MinutesOf(ls, pop_nodes[i])]]]
                IN  /\ pop_points' = attached
                    /\ ret' = Returned(op, ls, attached)
        /\ UNCHANGED <<G, edges, nodes, facilities, lengths>>
        /\ prev' = ret

-----------------------------------------------------------------------------
(* Summaries: summarize_access.                                            *)

\* a slip of WithinThreshold: >= instead of <=
WithinThresholdGE(tt, t) == RatLE(Num(t), tt)

\* self.pop_points['travel_time_min'] <= t (False for NaN)
WithinThreshold(tt, t) == RatLE(tt, Num(t))

\* one point's share: its 'pop', or 1 when points are counted
PointWeight(pp, i) == IF "pop" \in pp.cols THEN pp.rows[i].pop ELSE 1

RECURSIVE SumWeights(_, _, _)
\* the weights of rows i.. whose index is in keep
SumWeights(pp, keep, i) ==
    IF i > Len(pp.rows) THEN 0
    ELSE (IF i \in keep THEN PointWeight(pp, i) ELSE 0) + SumWeights(pp, keep, i + 1)

\* a slip of Total: only the points with a defined travel time
TotalDefined(pp) ==
    SumWeights(pp, {i \in 1..Len(pp.rows) : ~IsNaN(pp.rows[i].travel_time_min)}, 1)

\* float(self.pop_points['pop'].sum()), float(len(self.pop_points))
Total(pp) == SumWeights(pp, 1..Len(pp.rows), 1)

Within(pp, t) ==
    SumWeights(pp, {i \in 1..Len(pp.rows) : WithinThreshold(pp.rows[i].travel_time_min, t)}, 1)

\* (within / total * 100.0) if total > 0 else 0.0
Percentage(within, total) ==
    IF total > 0 THEN RatMul(RatDiv(Num(within), Num(total)), Num(100)) ELSE Num(0)

SummarizeAccess(thresholds) ==
    LET op == "summarize_access"
    IN  /\ IF "travel_time_min" \notin pop_points.cols /\ Len(thresholds) > 0
           THEN ret' = Raised(op, thresholds, "KeyError")
           ELSE ret' = Returned(op, thresholds,
                           [t \in Range(thresholds) |->
                               Percentage(Within(pop_points, t), Total(pop_points))])
        /\ UNCHANGED <<G, edges, nodes, pop_points, facilities, kdtree, lengths>>
        /\ prev' = ret

-----------------------------------------------------------------------------
(* Inputs of the weight runs.                                              *)

LengthsM == {100 * i : i \in 0..MaxLenUnits}

HighwayInputs ==
    {Str("primary"), Str("residential"), Str("track"),
     List(<<"service", "primary">>), List(<<"track", "primary">>), Missing}

EdgeRow(u, v, key, length, highway) ==
    [u |-> u, v |-> v, key |-> key, length |-> length, highway |-> highway,
     highway_str |-> Absent, speed_kph |-> Absent, travel_time_sec |-> Absent]

Unweighted(E) == [e \in E |-> Absent]

\* no points, no index: the weight runs only look at the graph and the table
NoPoints ==
    /\ nodes = <<1, 2>>
    /\ pop_points = [cols |-> {"pop"}, rows |-> <<>>]
    /\ facilities = <<>>
    /\ kdtree = NoTree
    /\ lengths = EmptyMap
    /\ ret = NoCall
    /\ prev = NoCall

\* tables in one-to-one correspondence with the parallel edges 1 -> 2, every
\* road class shape and every length
InitSpeed ==
    /\ \E m \in 0..(MaxKey + 1) :
         /\ G = [nodes |-> {1, 2}, edges |-> Unweighted({<<1, 2, k>> : k \in 0..(m - 1)})]
         /\ \E ls \in [1..m -> LengthsM], hs \in [1..m -> HighwayInputs] :
              edges = [keyed |-> TRUE,
                       rows |-> [i \in 1..m |-> EdgeRow(1, 2, i - 1, ls[i], hs[i])]]
    /\ NoPoints

\* tables whose rows need not name an edge of the graph; the i-th row is
\* 100 * i metres long, so that every row has a travel time of its own
WriteIds == {<<1, 2, k>> : k \in 0..(MaxKey + 1)} \cup {<<2, 1, k>> : k \in 0..(MaxKey + 1)}

WriteCand == {<<1, 2, k>> : k \in 0..MaxKey} \cup {<<2, 1, 0>>}

\* the graph comes without travel_time_sec, or with one of 1 s on every edge
\* from an earlier weighting
EarlierWeights == {Absent, Num(1)}

InitWrite ==
    /\ \E E \in SUBSET WriteCand, old \in EarlierWeights :
         G = [nodes |-> {1, 2}, edges |-> [e \in E |-> old]]
    /\ \E ids \in SeqsUpTo(WriteIds, MaxRows), keyed \in BOOLEAN :
         edges = [keyed |-> keyed,
                  rows |-> [i \in 1..Len(ids) |->
                              EdgeRow(ids[i][1], ids[i][2], ids[i][3], 100 * i, Str("primary"))]]
    /\ NoPoints

InitWeights == InitSpeed \/ InitWrite

NextWeights == AssignSpeedsAndTravelTime

SpecWeights == InitWeights /\ [][NextWeights]_vars

-----------------------------------------------------------------------------
(* Inputs of the routing runs: a weighted ring road network.               *)

RingPairs == {<<i, (i % NumNodes) + 1>> : i \in 1..NumNodes}

\* 100 m at 30 km/h (12 s), 100 m at 25 km/h (14.4 s), a zero-length edge
RouteRoads ==
    <<[length |-> 100, highway |-> Str("tertiary_link")],
      [length |-> 100, highway |-> Str("residential")],
      [length |-> 0, highway |-> Str("service")]>>

\* a street between a and b: closed, one-way either way, or two-way
Street(p, dir) ==
    CASE dir = "none" -> {}
      [] dir = "fwd" -> {<<p[1], p[2], 0>>}
      [] dir = "bwd" -> {<<p[2], p[1], 0>>}
      [] dir = "both" -> {<<p[1], p[2], 0>>, <<p[2], p[1], 0>>}

EdgeBefore(e, f) ==
    \/ e[1] < f[1]
    \/ (e[1] = f[1] /\ e[2] < f[2])
    \/ (e[1] = f[1] /\ e[2] = f[2] /\ e[3] <= f[3])

\* the edges in the order of the table's (u, v, key) index
RECURSIVE EdgeSeq(_)
EdgeSeq(E) ==
    IF E = {} THEN <<>>
    ELSE LET e == CHOOSE x \in E : \A y \in E : EdgeBefore(x, y)
         IN  <<e>> \o EdgeSeq(E \ {e})

\* the graph and table that assign_speeds_and_travel_time leaves behind
\* when roadOf gives every graph edge its length and class
WeightedNetwork(nodeSet, roadOf) ==
    LET es == EdgeSeq(DOMAIN roadOf)
        rows == WeightedRows([i \in 1..Len(es) |->
                    EdgeRow(es[i][1], es[i][2], es[i][3],
                            roadOf[es[i]].length, roadOf[es[i]].highway)])
    IN  /\ edges = [keyed |-> TRUE, rows |-> rows]
        /\ G = [nodes |-> nodeSet,
                edges |-> WriteGraph(Unweighted(DOMAIN roadOf),
                                     edge_time_dict(rows, TRUE), 1)]
        /\ ret = Returned("assign_speeds_and_travel_time", Absent, rows)

\* points that snap to node i
PointNear(i) == <<10 * i + 3, 2>>

PointNearToo(i) == <<10 * i - 4, 1>>

RouteFacilities ==
    {<<PointNear(1)>>, <<PointNear(1), PointNear(2)>>, <<PointNear(1), PointNearToo(1)>>}

Cutoffs == {10, 24, 3600}

\* what a ring street can be: closed, or open one-way or two-way as one of
\* the first two roads
StreetOptions == {<<"none", 1>>} \cup ({"fwd", "bwd", "both"} \X {1, 2})

\* a second, parallel edge 1 -> 2 (key 1): none, the 12 s road or the
\* zero-length road
ParallelOptions == {0, 1, 3}

InitRoute ==
    /\ \E opt \in [RingPairs -> StreetOptions], par \in ParallelOptions :
         LET ring == UNION {Street(p, opt[p][1]) : p \in RingPairs}
             E == IF par # 0 /\ <<1, 2, 0>> \in ring THEN ring \cup {<<1, 2, 1>>} ELSE ring
             pairOf(e) == CHOOSE p \in RingPairs : {e[1], e[2]} = {p[1], p[2]}
             roadOf == [e \in E |-> IF e[3] = 1 THEN RouteRoads[par]
                                    ELSE RouteRoads[opt[pairOf(e)][2]]]
         IN  WeightedNetwork(1..NumNodes, roadOf)
    /\ nodes = [i \in 1..NumNodes |-> i]
    /\ facilities \in RouteFacilities
    /\ pop_points = [cols |-> {"pop"}, rows |-> <<>>]
    /\ kdtree = NoTree
    /\ lengths = EmptyMap
    /\ prev = NoCall

\* the routing runs make the one call that follows the weighting
NextRoute ==
    /\ ret.op = "assign_speeds_and_travel_time"
    /\ \E cutoff \in Cutoffs : ComputeAccessibility(cutoff)

SpecRoute == InitRoute /\ [][NextRoute]_vars

-----------------------------------------------------------------------------
(* Inputs of the summary runs: population points with travel times         *)
(* attached.                                                               *)

PopWeights == {0, 10, 20, 70}

\* minutes: 5, 15, 65 and the undefined marker
TimesMin == {Num(5), Num(15), Num(65), NaN}

ThresholdLists == {<<10, 20, 60>>, <<60, 10>>, <<20, 5, 20>>}

InitSummary ==
    /\ \E m \in 0..MaxPop, hasPop \in BOOLEAN :
         \E ws \in [1..m -> IF hasPop THEN PopWeights ELSE {Absent}],
            ts \in [1..m -> TimesMin] :
              pop_points =
                 [cols |-> (IF hasPop THEN {"pop"} ELSE {}) \cup {"travel_time_min"},
                  rows |-> [i \in 1..m |->
                              [PopRow(PointNear(1), ws[i]) EXCEPT !.travel_time_min = ts[i]]]]
    /\ G = [nodes |-> {1}, edges |-> Unweighted({})]
    /\ edges = [keyed |-> TRUE, rows |-> <<>>]
    /\ nodes = <<1>>
    /\ facilities = <<>>
    /\ kdtree = BuiltTree(nodes)
    /\ lengths = EmptyMap
    /\ ret = NoCall
    /\ prev = NoCall

\* the summary runs make one call
NextSummary ==
    /\ ret = NoCall
    /\ \E thresholds \in ThresholdLists : SummarizeAccess(thresholds)

SpecSummary == InitSummary /\ [][NextSummary]_vars

-----------------------------------------------------------------------------
(* The pipeline: a freshly constructed AssessPipeline and every order of   *)
(* calls on it.                                                            *)

\* the chain 1 -> 2 -> ... of 12 s edges, one-way or with 14.4 s edges back
ChainOneWay == [e \in {<<i, i + 1, 0>> : i \in 1..(NumNodes - 1)} |-> RouteRoads[1]]

ChainTwoWay ==
    [e \in {<<i, i + 1, 0>> : i \in 1..(NumNodes - 1)}
           \cup {<<i + 1, i, 0>> : i \in 1..(NumNodes - 1)} |->
        IF e[1] < e[2] THEN RouteRoads[1] ELSE RouteRoads[2]]

\* the graph and its edge table as the loader hands them over: one row per
\* edge, no travel_time_sec yet
LoadedNetwork(nodeSeq, roadOf) ==
    LET es == EdgeSeq(DOMAIN roadOf)
    IN  /\ nodes = nodeSeq
        /\ G = [nodes |-> Range(nodeSeq), edges |-> Unweighted(DOMAIN roadOf)]
        /\ edges = [keyed |-> TRUE,
                    rows |-> [i \in 1..Len(es) |->
                                EdgeRow(es[i][1], es[i][2], es[i][3],
                                        roadOf[es[i]].length, roadOf[es[i]].highway)]]

PipelineFacilities == {<<>>, <<PointNear(1)>>, <<PointNear(2), PointNearToo(2)>>}

PipelinePopulations ==
    {[cols |-> {"pop"}, rows |-> <<>>],
     [cols |-> {"pop"},
      rows |-> <<PopRow(PointNear(1), 10), PopRow(PointNear(2), 20), PopRow(PointNearToo(3), 70)>>],
     [cols |-> {}, rows |-> <<PopRow(PointNear(2), Absent), PopRow(PointNear(3), Absent)>>],
     [cols |-> {"pop"}, rows |-> <<PopRow(PointNear(1), 0), PopRow(PointNear(3), 0)>>]}

Init ==
    /\ \/ LoadedNetwork(<<>>, EmptyMap)
       \/ LoadedNetwork([i \in 1..NumNodes |-> i], ChainOneWay)
       \/ LoadedNetwork([i \in 1..NumNodes |-> i], ChainTwoWay)
    /\ facilities \in PipelineFacilities
    /\ pop_points \in PipelinePopulations
    /\ kdtree = NoTree
    /\ lengths = EmptyMap
    /\ ret = NoCall
    /\ prev = NoCall

Next ==
    \/ AssignSpeedsAndTravelTime
    \/ \E cutoff \in Cutoffs : ComputeAccessibility(cutoff)
    \/ \E ls \in {lengths, EmptyMap} : AttachTravelTimes(ls)
    \/ \E thresholds \in ThresholdLists : SummarizeAccess(thresholds)
    \/ BuildNodeKdtree

Spec == Init /\ [][Next]_vars

-----------------------------------------------------------------------------
(* The pipeline with a node table that the caller edits between calls:     *)
(* self.nodes is the caller's own table, rows can be added to it and       *)
(* removed from it while the graph stays as it is.                         *)

NodeTables == {<<>>, [i \in 1..NumNodes |-> i], [i \in 1..(NumNodes - 1) |-> i]}

EditNodes(nd) ==
    /\ nd # nodes
    /\ nodes' = nd
    /\ ret' = Returned("nodes", Absent, nd)
    /\ prev' = ret
    /\ UNCHANGED <<G, edges, pop_points, facilities, kdtree, lengths>>

\* a fresh pipeline on the one-way chain, with one facility or none, and
\* with the three weighted population points or none
InitIndex ==
    /\ LoadedNetwork([i \in 1..NumNodes |-> i], ChainOneWay)
    /\ facilities \in {<<>>, <<PointNear(1)>>}
    /\ pop_points \in {p \in PipelinePopulations : Len(p.rows) # 2}
    /\ kdtree = NoTree
    /\ lengths = EmptyMap
    /\ ret = NoCall
    /\ prev = NoCall

\* every operation, in every order, between edits of the node table
NextIndex ==
    \/ AssignSpeedsAndTravelTime
    \/ ComputeAccessibility(3600)
    \/ AttachTravelTimes(lengths)
    \/ SummarizeAccess(<<10, 20, 60>>)
    \/ BuildNodeKdtree
    \/ \E pts \in {facilities, PointsOf(pop_points.rows)} : SnapToNearestNodes(pts)
    \/ \E nd \in NodeTables : EditNodes(nd)

SpecIndex == InitIndex /\ [][NextIndex]_vars

-----------------------------------------------------------------------------
(* Claims about the edge weights.                                          *)

AfterAssign == ret.op = "assign_speeds_and_travel_time" /\ ret.raised = "none"

\* the road class the claims look a speed up under
ClaimedClass(h) ==
    IF "list" \in DOMAIN h THEN Str(h.list[1]) ELSE h

ClaimedSpeed(h) ==
    LET c == ClaimedClass(h)
    IN  IF "str" \in DOMAIN c /\ c.str \in DOMAIN default_speeds
        THEN default_speeds[c.str] ELSE 30

\* tt = (length_m / 1000) / speed * 3600, stated without a division
IsTravelTimeOf(tt, row) ==
    /\ IsFinite(tt)
    /\ RatMul(tt, Num(ClaimedSpeed(row.highway) * 1000)) = Num(row.length * 3600)

\* C9 as written: after assign_speeds_and_travel_time every edge row has
\* travel_time_sec = (length_m/1000)/speed_kph*3600 for the speed of its road
\* class (first element of a list, fallback when unknown or missing), and
\* this value is finite and strictly positive whenever length_m >= 0.
C9_Original ==
    AfterAssign =>
        \A i \in 1..Len(edges.rows) :
            /\ IsTravelTimeOf(edges.rows[i].travel_time_sec, edges.rows[i])
            /\ RatGT(edges.rows[i].travel_time_sec, Num(0))

\* C9 amended: the same value, finite and non-negative for length_m >= 0,
\* and strictly positive exactly when length_m > 0 (a zero-length edge has
\* travel time 0).
C9_TravelTime ==
    AfterAssign =>
        \A i \in 1..Len(edges.rows) :
            /\ IsTravelTimeOf(edges.rows[i].travel_time_sec, edges.rows[i])
            /\ RatLE(Num(0), edges.rows[i].travel_time_sec)
            /\ RatGT(edges.rows[i].travel_time_sec, Num(0)) <=> edges.rows[i].length > 0

\* a weighted table with a list-valued class (100 m of 'service': 24 s) next
\* to a zero-length edge of an unknown or missing class
C9_Witness ==
    /\ AfterAssign
    /\ \E i, j \in 1..Len(edges.rows) :
         /\ "list" \in DOMAIN edges.rows[i].highway
         /\ edges.rows[i].length = 100
         /\ edges.rows[i].travel_time_sec = Num(24)
         /\ edges.rows[j].highway \in {Str("track"), Missing}
         /\ edges.rows[j].length = 0
         /\ edges.rows[j].travel_time_sec = Num(0)

\* the rows filed under the graph edge e
RowsOf(e) == {i \in 1..Len(edges.rows) :
                <<edges.rows[i].u, edges.rows[i].v, edges.rows[i].key>> = e}

\* C10: after assign_speeds_and_travel_time every edge (u, v, key) of the
\* graph carries travel_time_sec, computed from that edge's own length and
\* road class; none is left without it and none has another edge's value.
\* Stated for the tables where "its own" is defined: keyed by (u, v, key),
\* exactly one row per graph edge.
C10_OwnValue ==
    (/\ AfterAssign
     /\ edges.keyed
     /\ \A e \in DOMAIN G.edges : Cardinality(RowsOf(e)) = 1)
    => \A e \in DOMAIN G.edges :
          /\ G.edges[e] # Absent
          /\ \A i \in RowsOf(e) : IsTravelTimeOf(G.edges[e], edges.rows[i])

-----------------------------------------------------------------------------
(* Claims about compute_accessibility.                                     *)

AfterCompute == ret.op = "compute_accessibility" /\ ret.raised = "none"

\* the graph node nearest to point p
NearestNode(p) ==
    CHOOSE n \in G.nodes :
        \A m \in G.nodes \ {n} : Dist2(NodeCoord(n), p) < Dist2(NodeCoord(m), p)

\* the facility-node set
FacilityNodeSet ==
    IF G.nodes = {} THEN {} ELSE {NearestNode(facilities[i]) : i \in 1..Len(facilities)}

\* the paths one edge longer than those of P that visit no node twice
Extend(P) ==
    UNION {{Append(p, e[2]) : e \in {x \in DOMAIN G.edges :
                                        x[1] = p[Len(p)] /\ x[2] \notin Range(p)}} : p \in P}

RECURSIVE PathsUpTo(_, _)
PathsUpTo(P, k) == IF k = 0 \/ P = {} THEN {} ELSE P \cup PathsUpTo(Extend(P), k - 1)

\* the directed paths of the graph: sequences of distinct nodes, each hop
\* an edge
NodePaths == PathsUpTo({<<n>> : n \in G.nodes}, Cardinality(G.nodes))

\* those that start at a facility node
FacilityPaths == PathsUpTo({<<f>> : f \in FacilityNodeSet}, Cardinality(G.nodes))

\* travel_time_sec of the cheapest edge u -> v
HopCost(u, v) ==
    LET ts == {G.edges[e] : e \in {x \in DOMAIN G.edges : x[1] = u /\ x[2] = v}}
    IN  CHOOSE t \in ts : \A x \in ts : RatLE(t, x)

RECURSIVE PathCostFrom(_, _)
PathCostFrom(p, i) ==
    IF i >= Len(p) THEN Num(0)
    ELSE RatAdd(HopCost(p[i], p[i + 1]), PathCostFrom(p, i + 1))

PathCost(p) == PathCostFrom(p, 1)

\* total travel_time_sec of the paths among ps from a facility node to n,
\* and of those from n to a facility node
CostsFromFacility(ps, n) ==
    {PathCost(p) : p \in {q \in ps : q[1] \in FacilityNodeSet /\ q[Len(q)] = n}}

CostsToFacility(ps, n) ==
    {PathCost(p) : p \in {q \in ps : q[1] = n /\ q[Len(q)] \in FacilityNodeSet}}

IsLeast(x, S) == x \in S /\ \A y \in S : RatLE(x, y)

EveryEdgeWeighted == \A e \in DOMAIN G.edges : G.edges[e] # Absent

\* C1: with a non-empty facility-node set, the mapping compute_accessibility
\* returns gives every facility node 0 and every other node in it the least
\* total travel_time_sec of a path from a facility node to it.
C1_NearestFacilityTime ==
    (AfterCompute /\ EveryEdgeWeighted /\ FacilityNodeSet # {}) =>
        /\ \A f \in FacilityNodeSet : f \in DOMAIN ret.value /\ ret.value[f] = Num(0)
        /\ LET ps == FacilityPaths
           IN  \A n \in DOMAIN ret.value : IsLeast(ret.value[n], CostsFromFacility(ps, n))

\* Example 1: the chain 1 - 2 - 3 with 12 s hops and no street between 3
\* and 1, facility at node 1, cutoff 3600: {1: 0, 2: 12, 3: 24}
ChainOf12s ==
    /\ HopEdges(G.edges, 1, 2) # {} /\ HopCost(1, 2) = Num(12)
    /\ HopEdges(G.edges, 2, 3) # {} /\ HopCost(2, 3) = Num(12)
    /\ HopEdges(G.edges, 1, 3) = {} /\ HopEdges(G.edges, 3, 1) = {}
    /\ FacilityNodeSet = {1}

C1_Witness ==
    /\ AfterCompute /\ ChainOf12s
    /\ ret.arg = 3600
    /\ ret.value = [n \in {1, 2, 3} |-> Num(12 * (n - 1))]

\* C2: the returned mapping contains a node exactly when some path from a
\* facility node reaches it with total travel time <= cutoff, and no value
\* in it exceeds the cutoff.
C2_CutoffExact ==
    (AfterCompute /\ EveryEdgeWeighted) =>
        /\ LET ps == FacilityPaths
           IN  \A n \in G.nodes :
                  n \in DOMAIN ret.value
                    <=> \E c \in CostsFromFacility(ps, n) : RatLE(c, Num(ret.arg))
        /\ \A n \in DOMAIN ret.value : RatLE(ret.value[n], Num(ret.arg))

\* Example 2: the same chain with cutoff 10 gives {1: 0}; nodes 2 and 3,
\* 12 s and 24 s away, are absent
C2_Witness ==
    /\ AfterCompute /\ ChainOf12s
    /\ ret.arg = 10
    /\ DOMAIN ret.value = {1}
    /\ IsLeast(Num(12), CostsFromFacility(FacilityPaths, 2))
    /\ IsLeast(Num(24), CostsFromFacility(FacilityPaths, 3))

\* C3: every value of the returned mapping is the least total travel time
\* of a directed path from that node to a facility node ('from every node
\* to nearest facility'), one-way edges included.
C3_ToFacility ==
    (AfterCompute /\ EveryEdgeWeighted) =>
        LET ps == NodePaths
        IN  \A n \in DOMAIN ret.value : IsLeast(ret.value[n], CostsToFacility(ps, n))

-----------------------------------------------------------------------------
(* Claims about zero facilities, attachment and summaries.                 *)

\* C4: with zero facility points compute_accessibility returns the empty
\* mapping and does not raise, whatever the graph and the cutoff and whether
\* or not the spatial index was built before.
C4_NoFacilities ==
    (ret.op = "compute_accessibility" /\ Len(facilities) = 0) =>
        /\ ret.raised = "none"
        /\ ret.value = EmptyMap
        /\ kdtree.built

\* the call has returned {} with no facility points, on a graph without
\* nodes at that
C4_Witness ==
    /\ ret.op = "compute_accessibility" /\ ret.raised = "none"
    /\ Len(facilities) = 0
    /\ ret.value = EmptyMap
    /\ G.nodes = {}

AfterAttach == ret.op = "attach_travel_times" /\ ret.raised = "none"

\* C5: attach_travel_times(lengths) gives every population point exactly
\* lengths[snap(p)] / 60 when snap(p) is a key of lengths and the undefined
\* marker otherwise, never 0 or another number for an absent node.
C5_MinutesOrUndefined ==
    AfterAttach =>
        /\ "travel_time_min" \in pop_points.cols
        /\ \A i \in 1..Len(pop_points.rows) :
              LET n == NearestNode(pop_points.rows[i].xy)
                  tt == pop_points.rows[i].travel_time_min
              IN  IF n \in DOMAIN ret.arg
                  THEN IsFinite(tt) /\ RatMul(tt, Num(60)) = ret.arg[n]
                  ELSE tt = NaN

\* one call has attached 12 s as 1/5 min to a point, left another point
\* undefined and kept a third at 0
C5_Witness ==
    /\ AfterAttach
    /\ \E i, j, k \in 1..Len(pop_points.rows) :
         /\ pop_points.rows[i].travel_time_min = Rat(1, 5)
         /\ ret.arg[NearestNode(pop_points.rows[i].xy)] = Num(12)
         /\ pop_points.rows[j].travel_time_min = NaN
         /\ NearestNode(pop_points.rows[j].xy) \notin DOMAIN ret.arg
         /\ pop_points.rows[k].travel_time_min = Num(0)

AfterSummarize == ret.op = "summarize_access" /\ ret.raised = "none"

\* weight of point i as the claims count it
ShareOf(i) == IF "pop" \in pop_points.cols THEN pop_points.rows[i].pop ELSE 1

RECURSIVE ShareSum(_)
ShareSum(I) ==
    IF I = {} THEN 0
    ELSE LET i == CHOOSE x \in I : TRUE IN ShareOf(i) + ShareSum(I \ {i})

\* the points whose travel time is defined and at most t minutes
Served(t) ==
    {i \in 1..Len(pop_points.rows) :
        /\ IsFinite(pop_points.rows[i].travel_time_min)
        /\ RatLE(pop_points.rows[i].travel_time_min, Num(t))}

AllPoints == 1..Len(pop_points.rows)

\* C6: for every threshold t, summarize_access returns 100 * (weight, or
\* count, of the points with a defined travel time <= t) / (weight, or
\* count, of all points, undefined ones included).
C6_Percentage ==
    (AfterSummarize /\ ShareSum(AllPoints) > 0) =>
        /\ DOMAIN ret.value = Range(ret.arg)
        /\ \A t \in DOMAIN ret.value :
              /\ IsFinite(ret.value[t])
              /\ RatMul(ret.value[t], Num(ShareSum(AllPoints))) = Num(100 * ShareSum(Served(t)))

\* Example 4: weights [10, 20, 70], times [5, 15, 65], thresholds
\* [10, 20, 60] give {10: 10.0, 20: 30.0, 60: 30.0}
C6_Witness ==
    /\ AfterSummarize
    /\ ret.arg = <<10, 20, 60>>
    /\ "pop" \in pop_points.cols
    /\ [i \in 1..Len(pop_points.rows) |-> pop_points.rows[i].pop] = <<10, 20, 70>>
    /\ [i \in 1..Len(pop_points.rows) |-> pop_points.rows[i].travel_time_min]
          = <<Num(5), Num(15), Num(65)>>
    /\ ret.value = (10 :> Num(10) @@ 20 :> Num(30) @@ 60 :> Num(30))

\* C7: on an empty population set, or one of total weight zero,
\* summarize_access returns 0.0 for every threshold and raises nothing, at
\* whatever point of the pipeline it is called.
C7_ZeroNeverRaises ==
    (ret.op = "summarize_access" /\ ShareSum(AllPoints) = 0) =>
        /\ ret.raised = "none"
        /\ \A t \in DOMAIN ret.value : ret.value[t] = Num(0)

\* C8: coverage is non-decreasing in the threshold, in whatever order the
\* thresholds are passed.
C8_Monotone ==
    AfterSummarize =>
        \A t1, t2 \in DOMAIN ret.value :
            t1 < t2 => RatLE(ret.value[t1], ret.value[t2])

\* thresholds passed as [60, 10] with strictly more coverage at 60 than at 10
C8_Witness ==
    /\ AfterSummarize
    /\ ret.arg = <<60, 10>>
    /\ RatLT(ret.value[10], ret.value[60])
    /\ \E i \in 1..Len(pop_points.rows) : pop_points.rows[i].travel_time_min = NaN

-----------------------------------------------------------------------------
(* Claims about the fallback write of assign_speeds_and_travel_time.       *)

AssignStep == ret'.op = "assign_speeds_and_travel_time"

\* the (u, v, key) the i-th row of the table names
NamedEdge(i) ==
    <<edges.rows[i].u, edges.rows[i].v, IF edges.keyed THEN edges.rows[i].key ELSE 0>>

NamedBy(e) == {i \in 1..Len(edges.rows) : NamedEdge(i) = e}

\* the parallel edges u -> v of the graph and the first of them
Parallel(u, v) == {e \in DOMAIN G.edges : e[1] = u /\ e[2] = v}

IsFirstParallel(e) == \A f \in Parallel(e[1], e[2]) : e[3] <= f[3]

\* the rows between u and v that name no parallel edge of the graph
Unresolved(u, v) ==
    {i \in 1..Len(edges.rows) :
        NamedEdge(i)[1] = u /\ NamedEdge(i)[2] = v /\ NamedEdge(i) \notin DOMAIN G.edges}

\* the rows that write to e: those that name it and, when e is the first
\* parallel edge, those that name no edge between its end nodes
WritersOf(e) ==
    NamedBy(e) \cup (IF IsFirstParallel(e) THEN Unresolved(e[1], e[2]) ELSE {})

FirstRowOf(key) == CHOOSE i \in NamedBy(key) : \A j \in NamedBy(key) : i <= j

LastRowOf(key) == CHOOSE i \in NamedBy(key) : \A j \in NamedBy(key) : j <= i

\* the row whose value stays: identifiers are written in the order of their
\* first row, each with the value of its last row
StayingRow(I) ==
    LET keys == {NamedEdge(i) : i \in I}
        k == CHOOSE x \in keys : \A y \in keys : FirstRowOf(y) <= FirstRowOf(x)
    IN  LastRowOf(k)

\* C11: a row whose (u, v, key) names no parallel edge while edges u -> v
\* exist writes its weight to the first parallel edge and to no other: after
\* the call every graph edge holds the weight of the last row that wrote to
\* it (its own rows and, on the first parallel edge, the unresolved rows),
\* and an edge no row wrote to keeps the travel_time_sec it had.
C11_FirstParallelOnly ==
    [][AssignStep =>
         \A e \in DOMAIN G.edges :
            IF WritersOf(e) = {}
            THEN G'.edges[e] = G.edges[e]
            ELSE G'.edges[e] = edges'.rows[StayingRow(WritersOf(e))].travel_time_sec]_vars

\* a row named (1, 2, key) with a key the graph does not have; its weight is
\* on edge (1, 2, 0), and edge (1, 2, 1) still has the 1 s it came with
C11_Witness ==
    /\ AfterAssign
    /\ {<<1, 2, 0>>, <<1, 2, 1>>} \subseteq DOMAIN G.edges
    /\ \E i \in Unresolved(1, 2) :
         /\ edges.rows[i].travel_time_sec # Num(1)
         /\ G.edges[<<1, 2, 0>>] = edges.rows[i].travel_time_sec
    /\ G.edges[<<1, 2, 1>>] = Num(1)

-----------------------------------------------------------------------------
(* Claims about the order of the calls and the spatial index.              *)

\* C12: compute_accessibility requires the WEIGHTED state: in no sequence
\* of calls does it return a non-empty node -> seconds mapping while an edge
\* of the graph has no travel_time_sec from assign_speeds_and_travel_time.
C12_RequiresWeighted ==
    (AfterCompute /\ ret.value # EmptyMap) => EveryEdgeWeighted

SnapOps == {"compute_accessibility", "attach_travel_times", "_snap_to_nearest_nodes"}

\* C13: the spatial index is absent until the first snap call; that call
\* builds it from the node table as it is then (as many entries as nodes);
\* every later snap call of compute_accessibility or attach_travel_times
\* leaves it as it is, whatever happened to the node table since; and only
\* _build_node_kdtree replaces an index that is there.
C13_LazyBuiltOnce ==
    /\ ~kdtree.built
    /\ [][/\ kdtree.built /\ ret'.op # "_build_node_kdtree" => kdtree' = kdtree
          /\ ~kdtree.built /\ ret'.op \notin SnapOps \cup {"_build_node_kdtree"}
                => ~kdtree'.built
          /\ (~kdtree.built /\ ret'.op \in SnapOps) \/ ret'.op = "_build_node_kdtree"
                => /\ kdtree'.built
                   /\ kdtree'.ids = nodes
                   /\ Len(kdtree'.coords) = Len(nodes)
                   /\ \A i \in 1..Len(nodes) : kdtree'.coords[i] = <<10 * nodes[i], 0>>]_vars

\* a snap call has returned node ids from an index built before the node
\* table lost its rows: the table is empty now, the index still has every
\* node, and the call before this one was the edit of the table
C13_Witness ==
    /\ ret.op = "compute_accessibility" /\ ret.raised = "none"
    /\ prev.op = "nodes"
    /\ nodes = <<>>
    /\ kdtree.built /\ Len(kdtree.ids) = NumNodes
    /\ ret.value # EmptyMap

\* C14: snapping raises an EmptyInputError when the set of query points is
\* empty or when the index holds no coordinates; in those two cases it
\* returns nothing and fails in no other way.
C14_EmptyInputError ==
    (/\ ret.op = "_snap_to_nearest_nodes"
     /\ Len(ret.arg) = 0 \/ Len(kdtree.coords) = 0)
    => ret.raised = "EmptyInputError"

====
